---- MODULE Spec2Model ----
(***************************************************************************)
(* Model of lib/ansible/modules/network/eos/eos_user.py: the reconcile    *)
(* pass of main() over the module parameters and the device's running     *)
(* configuration.                                                          *)
(*                                                                         *)
(* Python values are encoded as options: None is <<>>, a value v is <<v>>. *)
(* Text is a sequence of whitespace-free tokens; a configuration is a      *)
(* sequence of lines; a command is one line.                               *)
(***************************************************************************)
EXTENDS Integers, Sequences, FiniteSets, TLC

VARIABLES params, device, pc, run, want, config, have, updates, commands,
          changed, loads, fetches, msg, prev

vars == <<params, device, pc, run, want, config, have, updates, commands,
          changed, loads, fetches, msg, prev>>

None == <<>>
Some(v) == <<v>>

Range(s) == {s[i] : i \in 1..Len(s)}

RECURSIVE Flatten(_)
Flatten(ss) == IF ss = <<>> THEN <<>> ELSE Head(ss) \o Flatten(Tail(ss))

(* ------------------------------ bounds -------------------------------- *)

\* longest users list handed to the module
MaxUsers == 2
\* number of consecutive invocations of main against the same device
MaxRuns == 2

(* --------------------------- program constants ------------------------ *)

PrivilegeMin == 1
PrivilegeMax == 15

\* the record fields, in the order map_params_to_obj fills them in
Fields == <<"password", "nopassword", "privilege", "role", "sshkey", "state">>
Keys == <<"username">> \o Fields

\* Python truthiness of a value of field key: None, '', 0, False are falsy
Truthy(key, v) ==
    /\ v # None
    /\ CASE key = "privilege" -> v[1] # 0
         [] key = "nopassword" -> v[1]
         [] key = "sshkey" -> v[1] # <<>>
         [] OTHER -> v[1] # ""

\* the empty dict {}: .get of any key is None
EmptyDict == [k \in Range(Keys) |-> None]

(* --------------------------- validate_privilege ----------------------- *)

\* TRUE when validate_privilege(value) calls fail_json
validate_privilege(value) == ~(PrivilegeMin <= value /\ value <= PrivilegeMax)

(* --------------------------- get_param_value -------------------------- *)

\* the value get_param_value returns when it returns
param_value(key, item, p) ==
    IF ~Truthy(key, item[key]) THEN p[key] ELSE item[key]

\* TRUE when get_param_value ends in fail_json (the only validator is
\* validate_privilege, and it runs only on a truthy value)
param_fails(key, item, p) ==
    /\ key = "privilege"
    /\ Truthy(key, param_value(key, item, p))
    /\ validate_privilege(param_value(key, item, p)[1])

(* --------------------------- map_params_to_obj ------------------------ *)

\* the list of dicts built from users / username (lines 266-282); a bare
\* string becomes {'username': item}
Collection(p) ==
    IF p.users = None \/ p.users[1] = <<>>
    THEN IF p.username = None THEN <<>>
         ELSE <<[EmptyDict EXCEPT !.username = p.username]>>
    ELSE p.users[1]

\* TRUE when building the collection calls fail_json('username is required')
UsernameRequired(p) ==
    IF p.users = None \/ p.users[1] = <<>>
    THEN p.username = None /\ ~p.purge
    ELSE \E i \in 1..Len(p.users[1]) : p.users[1][i].username = None

FillItem(item, p) ==
    [k \in Range(Keys) |->
        IF k = "username" THEN item.username ELSE param_value(k, item, p)]

map_params_to_obj(p) ==
    IF UsernameRequired(p)
    THEN [ok |-> FALSE, msg |-> "username is required", objects |-> <<>>]
    ELSE IF \E i \in 1..Len(Collection(p)) :
                \E k \in Range(Fields) : param_fails(k, Collection(p)[i], p)
    THEN [ok |-> FALSE, msg |-> "privilege must be between 1 and 15",
          objects |-> <<>>]
    ELSE [ok |-> TRUE, msg |-> "",
          objects |-> [i \in 1..Len(Collection(p)) |-> FillItem(Collection(p)[i], p)]]

(* --------------------------- update_objects --------------------------- *)

\* the have record with entry's username, or None (line 301)
Lookup(hv, name) ==
    IF \E i \in 1..Len(hv) : hv[i].username = name
    THEN Some(hv[CHOOSE i \in 1..Len(hv) :
                    /\ hv[i].username = name
                    /\ \A j \in 1..(i - 1) : hv[j].username # name])
    ELSE None

\* one (entry, item) pair per key of entry whose value is truthy and differs
\* from item's (lines 305-307)
RECURSIVE PairsFor(_, _, _)
PairsFor(entry, item, keys) ==
    IF keys = <<>> THEN <<>>
    ELSE (IF Truthy(Head(keys), entry[Head(keys)])
             /\ entry[Head(keys)] # item[Head(keys)]
          THEN <<[want |-> entry, have |-> item]>>
          ELSE <<>>) \o PairsFor(entry, item, Tail(keys))

EntryUpdates(entry, hv) ==
    LET item == Lookup(hv, entry.username) IN
    IF item = None /\ entry.state = Some("present")
    THEN <<[want |-> entry, have |-> EmptyDict]>>
    ELSE IF item # None THEN PairsFor(entry, item[1], Keys)
    ELSE <<>>

update_objects(wt, hv) ==
    Flatten([i \in 1..Len(wt) |-> EntryUpdates(wt[i], hv)])

(* --------------------------- map_obj_to_commands ---------------------- *)

\* '%s' % value for an integer
Str(n) == ToString(n)

needs_update(w, h, x) == Truthy(x, w[x]) /\ w[x] # h[x]

\* 'username <name> <x>'
add(w, x) == <<<<"username", w.username[1]>> \o x>>

\* 'no username <name>'
Removal(name) == <<"no", "username", name>>

\* line 191: update_password == 'always' or not have
\* variant of line 191 that ignores the policy
SecretAlways(update_password, h) == TRUE
SecretAllowed(update_password, h) == update_password = "always" \/ h = EmptyDict

\* the commands rendered for one (want, have) pair (lines 175-201)
PairCommands(w, h, update_password) ==
    IF w.state = Some("absent") THEN <<Removal(w.username[1])>>
    ELSE
      (IF needs_update(w, h, "role") THEN add(w, <<"role", w.role[1]>>) ELSE <<>>)
      \o (IF needs_update(w, h, "privilege")
          THEN add(w, <<"privilege", Str(w.privilege[1])>>) ELSE <<>>)
      \o (IF needs_update(w, h, "password")
             /\ SecretAllowed(update_password, h)
          THEN add(w, <<"secret", w.password[1]>>) ELSE <<>>)
      \o (IF needs_update(w, h, "sshkey")
          THEN add(w, <<"sshkey">> \o w.sshkey[1]) ELSE <<>>)
      \o (IF needs_update(w, h, "nopassword")
          THEN IF w.nopassword[1] THEN add(w, <<"nopassword">>)
               ELSE add(w, <<"no", "username", w.username[1], "nopassword">>)
          ELSE <<>>)

map_obj_to_commands(upd, p) ==
    Flatten([i \in 1..Len(upd) |->
                PairCommands(upd[i].want, upd[i].have, p.update_password)])

(* --------------------------- the device ------------------------------- *)

\* the account names of the model; 'admin' is the account line 347 and
\* line 354 name
Names == <<"admin", "bob", "carol">>

\* the integers a privilege token of the configuration can spell
IntDomain == (PrivilegeMin - 2)..(PrivilegeMax + 2)

\* the account's lines of 'show running-config section username': the
\* attributes on one line, the ssh key on a line of its own
UserLines(name, a) ==
    <<<<"username", name>>
        \o (IF a.privilege # None THEN <<"privilege", Str(a.privilege[1])>> ELSE <<>>)
        \o (IF a.role # None THEN <<"role", a.role[1]>> ELSE <<>>)
        \o (IF a.nopassword THEN <<"nopassword">> ELSE <<>>)
        \o (IF a.secret THEN <<"secret", "sha512", "$6$hash">> ELSE <<>>)>>
    \o (IF a.sshkey # None THEN <<<<"username", name, "sshkey">> \o a.sshkey[1]>>
        ELSE <<>>)

\* get_config(module, flags=['section username'])
get_config(dev) ==
    Flatten([i \in 1..Len(Names) |->
                IF dev[Names[i]] = None THEN <<>>
                ELSE UserLines(Names[i], dev[Names[i]][1])])

(* --------------------------- map_config_to_obj ------------------------ *)

\* re.findall(r'^username (\S+)', data, re.M), as a set
ConfigUsers(data) ==
    {data[i][2] : i \in {j \in 1..Len(data) :
                            Len(data[j]) >= 2 /\ data[j][1] = "username"}}

\* positions where r'username <user> .+$' matches in a line
MatchAt(line, user) ==
    {i \in 1..Len(line) : /\ i + 2 <= Len(line)
                          /\ line[i] = "username"
                          /\ line[i + 1] = user}

Min(S) == CHOOSE x \in S : \A y \in S : x <= y

\* re.findall(r'username <user> .+$', data, re.M): the matched texts
RECURSIVE UserCfg(_, _)
UserCfg(data, user) ==
    IF data = <<>> THEN <<>>
    ELSE (IF MatchAt(Head(data), user) = {} THEN <<>>
          ELSE <<SubSeq(Head(data), Min(MatchAt(Head(data), user)),
                        Len(Head(data)))>>)
         \o UserCfg(Tail(data), user)

\* the rest of the line after the first occurrence of keyword that has
\* text after it, searching the lines in order; <<>> when there is none
RECURSIVE After(_, _)
After(cfg, keyword) ==
    IF cfg = <<>> THEN <<>>
    ELSE LET line == Head(cfg)
             hits == {i \in 1..Len(line) : line[i] = keyword /\ i < Len(line)}
         IN IF hits = {} THEN After(Tail(cfg), keyword)
            ELSE SubSeq(line, Min(hits) + 1, Len(line))

\* int(text)
ParseInt(text) == CHOOSE n \in IntDomain : Str(n) = text

parse_role(cfg) ==
    IF After(cfg, "role") = <<>> THEN None ELSE Some(After(cfg, "role")[1])

\* variant of parse_sshkey with (\S+) in place of (.+)
parse_sshkey_first_token(cfg) ==
    IF After(cfg, "sshkey") = <<>> THEN None ELSE Some(<<After(cfg, "sshkey")[1]>>)
parse_sshkey(cfg) ==
    IF After(cfg, "sshkey") = <<>> THEN None ELSE Some(After(cfg, "sshkey"))

parse_privilege(cfg) ==
    IF After(cfg, "privilege") = <<>> THEN None
    ELSE Some(ParseInt(After(cfg, "privilege")[1]))

\* 'nopassword' in cfg
parse_nopassword(cfg) ==
    \E i \in 1..Len(cfg) : \E j \in 1..Len(cfg[i]) : cfg[i][j] = "nopassword"

ConfigObj(data, user) ==
    LET cfg == UserCfg(data, user) IN
    [username |-> Some(user),
     state |-> Some("present"),
     nopassword |-> Some(parse_nopassword(cfg)),
     password |-> None,
     sshkey |-> parse_sshkey(cfg),
     privilege |-> parse_privilege(cfg),
     role |-> parse_role(cfg)]

\* the instances list; set(match) is walked here in the order of Names
map_config_to_obj(data) ==
    Flatten([i \in 1..Len(Names) |->
                IF Names[i] \in ConfigUsers(data)
                THEN <<ConfigObj(data, Names[i])>> ELSE <<>>])

(* --------------------------- load_config ------------------------------ *)

NoAttrs == [privilege |-> None, role |-> None, sshkey |-> None,
            nopassword |-> FALSE, secret |-> FALSE]

\* the device after one configuration command
ApplyCommand(dev, cmd) ==
    IF Len(cmd) = 3 /\ cmd[1] = "no" /\ cmd[2] = "username"
    THEN [dev EXCEPT ![cmd[3]] = None]
    ELSE IF Len(cmd) >= 3 /\ cmd[1] = "username"
    THEN LET name == cmd[2]
             old == IF dev[name] = None THEN NoAttrs ELSE dev[name][1]
             new == CASE cmd[3] = "role" /\ Len(cmd) = 4 ->
                            [old EXCEPT !.role = Some(cmd[4])]
                      [] cmd[3] = "privilege" /\ Len(cmd) = 4 ->
                            [old EXCEPT !.privilege = Some(ParseInt(cmd[4]))]
                      [] cmd[3] = "secret" /\ Len(cmd) = 4 ->
                            [old EXCEPT !.secret = TRUE]
                      [] cmd[3] = "sshkey" /\ Len(cmd) >= 4 ->
                            [old EXCEPT !.sshkey = Some(SubSeq(cmd, 4, Len(cmd)))]
                      [] cmd[3] = "nopassword" /\ Len(cmd) = 3 ->
                            [old EXCEPT !.nopassword = TRUE]
                      [] OTHER -> old
         IN [dev EXCEPT ![name] = Some(new)]
    ELSE dev

RECURSIVE ApplyCommands(_, _)
ApplyCommands(dev, cmds) ==
    IF cmds = <<>> THEN dev
    ELSE ApplyCommands(ApplyCommand(dev, Head(cmds)), Tail(cmds))

(* --------------------------- main ------------------------------------- *)

\* variant of lines 344-347 without the test of line 347
PurgeTargetsWithAdmin(wt, hv) ==
    {hv[i].username[1] : i \in 1..Len(hv)}
        \ {wt[i].username[1] : i \in 1..Len(wt)}
\* variant of lines 344-347 without the set difference
PurgeTargetsAllHave(wt, hv) ==
    {hv[i].username[1] : i \in 1..Len(hv)} \ {"admin"}
\* the usernames purge removes (lines 344-347)
PurgeTargets(wt, hv) ==
    ({hv[i].username[1] : i \in 1..Len(hv)}
        \ {wt[i].username[1] : i \in 1..Len(wt)}) \ {"admin"}

\* the orders in which a set can be walked
Orders(S) ==
    {f \in [1..Cardinality(S) -> S] :
        \A i, j \in 1..Cardinality(S) : f[i] = f[j] => i = j}

\* line 354: 'no username admin' in commands
RemovesAdmin(cmds) == Removal("admin") \in Range(cmds)

\* variant of line 357 without the test
ShouldLoadAlways(cmds) == TRUE
\* line 357: if commands
ShouldLoad(cmds) == cmds # <<>>

\* line 338, map_params_to_obj returns
MapParams ==
    /\ pc = "start"
    /\ map_params_to_obj(params).ok
    /\ want' = map_params_to_obj(params).objects
    /\ pc' = "want"
    /\ UNCHANGED <<params, device, run, config, have, updates, commands,
                   changed, loads, fetches, msg, prev>>

\* line 338, map_params_to_obj ends in fail_json
FailParams ==
    /\ pc = "start"
    /\ ~map_params_to_obj(params).ok
    /\ msg' = map_params_to_obj(params).msg
    /\ pc' = "failed"
    /\ UNCHANGED <<params, device, run, want, config, have, updates, commands,
                   changed, loads, fetches, prev>>

\* line 339: fetch the running configuration and parse it
MapConfig ==
    /\ pc = "want"
    /\ fetches' = fetches + 1
    /\ config' = get_config(device)
    /\ have' = map_config_to_obj(config')
    /\ pc' = "have"
    /\ UNCHANGED <<params, device, run, want, updates, commands, changed,
                   loads, msg, prev>>

\* line 341: diff and render
Reconcile ==
    /\ pc = "have"
    /\ updates' = update_objects(want, have)
    /\ commands' = map_obj_to_commands(updates', params)
    /\ pc' = "rendered"
    /\ UNCHANGED <<params, device, run, want, config, have, changed, loads,
                   fetches, msg, prev>>

\* lines 343-350: the set difference is walked in an unspecified order
Purge ==
    /\ pc = "rendered"
    /\ IF params.purge
       THEN \E order \in Orders(PurgeTargets(want, have)) :
               commands' = commands
                   \o [i \in 1..Len(order) |-> Removal(order[i])]
       ELSE commands' = commands
    /\ pc' = "purged"
    /\ UNCHANGED <<params, device, run, want, config, have, updates, changed,
                   loads, fetches, msg, prev>>

\* lines 354-355
FailAdmin ==
    /\ pc = "purged"
    /\ RemovesAdmin(commands)
    /\ msg' = "cannot delete the admin account"
    /\ pc' = "failed"
    /\ UNCHANGED <<params, device, run, want, config, have, updates, commands,
                   changed, loads, fetches, prev>>

\* lines 357-363: load_config(module, commands, commit=not module.check_mode)
LoadConfig ==
    /\ pc = "purged"
    /\ ~RemovesAdmin(commands)
    /\ ShouldLoad(commands)
    /\ \E check_mode \in BOOLEAN :
          /\ loads' = Append(loads, [commands |-> commands, commit |-> ~check_mode])
          /\ device' = IF check_mode THEN device
                       ELSE ApplyCommands(device, commands)
    /\ changed' = TRUE
    /\ pc' = "done"
    /\ UNCHANGED <<params, run, want, config, have, updates, commands,
                   fetches, msg, prev>>

\* line 365 with nothing to load
Exit ==
    /\ pc = "purged"
    /\ ~RemovesAdmin(commands)
    /\ ~ShouldLoad(commands)
    /\ pc' = "done"
    /\ UNCHANGED <<params, device, run, want, config, have, updates, commands,
                   changed, loads, fetches, msg, prev>>

\* the module is invoked again with the same parameters after a run that
\* committed its commands
Rerun ==
    /\ pc = "done"
    /\ run < MaxRuns
    /\ loads # <<>> /\ loads[1].commit
    /\ prev' = Append(prev, commands)
    /\ run' = run + 1
    /\ pc' = "start"
    /\ want' = <<>> /\ config' = <<>> /\ have' = <<>> /\ updates' = <<>>
    /\ commands' = <<>> /\ changed' = FALSE /\ loads' = <<>>
    /\ fetches' = 0 /\ msg' = ""
    /\ UNCHANGED <<params, device>>

Next ==
    \/ MapParams
    \/ FailParams
    \/ MapConfig
    \/ Reconcile
    \/ Purge
    \/ FailAdmin
    \/ LoadConfig
    \/ Exit
    \/ Rerun

(* --------------------------- inputs ----------------------------------- *)

Key1 == <<"ssh-rsa", "KEY1">>

\* privilege values around both ends of the legal range
PrivValues == {PrivilegeMin - 2, PrivilegeMin - 1, PrivilegeMin, 7,
               PrivilegeMax, PrivilegeMax + 1}

\* a users element: a dict with the given keys
Dict(name, st, priv, role) ==
    [EmptyDict EXCEPT !.username = name, !.state = st, !.privilege = priv,
                      !.role = role]

\* a users element that is a bare string: {'username': item} (line 278)
Bare(name) == Dict(Some(name), None, None, None)

Items ==
    {Bare("bob"), Bare("carol"),
     Dict(None, None, None, Some("net")),
     Dict(Some("admin"), Some("absent"), None, None),
     Dict(Some("bob"), None, Some(0), None),
     Dict(Some("bob"), None, Some(PrivilegeMax + 1), None),
     Dict(Some("bob"), None, Some(5), Some("net")),
     Dict(Some("carol"), Some("absent"), None, Some("net"))}

UserLists == UNION {[1..n -> Items] : n \in 0..MaxUsers}

AdminAttrs == [NoAttrs EXCEPT !.privilege = Some(PrivilegeMax),
                              !.role = Some("network-admin"), !.secret = TRUE]
PlainAttrs == [NoAttrs EXCEPT !.privilege = Some(PrivilegeMin), !.secret = TRUE]
FullAttrs == [NoAttrs EXCEPT !.privilege = Some(7), !.role = Some("ops"),
                             !.sshkey = Some(Key1), !.nopassword = TRUE]

Device(a, b, c) ==
    [n \in Range(Names) |->
        IF n = "admin" THEN a ELSE IF n = "bob" THEN b ELSE c]

\* running configurations the device starts with
Devices ==
    {Device(None, None, None),
     Device(Some(AdminAttrs), None, None),
     Device(Some(AdminAttrs), Some(PlainAttrs), None),
     Device(Some(AdminAttrs), Some(FullAttrs), Some(PlainAttrs)),
     Device(None, Some(PlainAttrs), Some(NoAttrs))}

\* module.params after LocalAnsibleModule has applied the argument spec:
\* username and users are mutually exclusive, state and update_password
\* have defaults and choices, purge is a bool
SingleParams ==
    [users : {None},
     username : {None, Some("admin"), Some("bob")},
     password : {None, Some("pw")},
     nopassword : {None, Some(TRUE), Some(FALSE)},
     privilege : {None} \cup {Some(v) : v \in PrivValues},
     role : {None, Some("ops")},
     sshkey : {None, Some(Key1)},
     state : {Some("present"), Some("absent")},
     purge : BOOLEAN,
     update_password : {"always", "on_create"}]

ListParams ==
    [users : {Some(l) : l \in UserLists},
     username : {None},
     password : {None, Some("pw")},
     nopassword : {None},
     privilege : {None, Some(7)},
     role : {None},
     sshkey : {None},
     state : {Some("present")},
     purge : BOOLEAN,
     update_password : {"always", "on_create"}]

Init ==
    /\ params \in SingleParams \cup ListParams
    /\ device \in Devices
    /\ pc = "start"
    /\ run = 1
    /\ want = <<>>
    /\ config = <<>>
    /\ have = <<>>
    /\ updates = <<>>
    /\ commands = <<>>
    /\ changed = FALSE
    /\ loads = <<>>
    /\ fetches = 0
    /\ msg = ""
    /\ prev = <<>>

Spec == Init /\ [][Next]_vars

(* --------------------------- properties ------------------------------- *)

WantUsers == {want[i].username[1] : i \in 1..Len(want)}
HaveUsers == {have[i].username[1] : i \in 1..Len(have)}

\* the commands of the diff/render step of this run
Rendered == map_obj_to_commands(updates, params)

\* the run is past line 341 / past line 350
AfterRender == pc \in {"rendered", "purged"} \/ (pc \in {"done", "failed"} /\ fetches = 1)
AfterPurge == pc = "purged" \/ (pc \in {"done", "failed"} /\ fetches = 1)
ParamsFailed == pc = "failed" /\ fetches = 0

\* the username a command is about
Target(c) == IF c[1] = "no" THEN c[3] ELSE c[2]
CommandsFor(cmds, u) == SelectSeq(cmds, LAMBDA c : Target(c) = u)
Count(cmds, c) == Cardinality({i \in 1..Len(cmds) : cmds[i] = c})

\* C1: load_config never receives 'no username admin'; a purge with admin
\* in have and not in want renders no removal of admin and does not fail;
\* a run whose command list holds the removal of admin ends in the fatal
\* error with load_config not called.
C1_ProtectedAccount ==
    /\ \A i \in 1..Len(loads) : ~RemovesAdmin(loads[i].commands)
    /\ (AfterPurge /\ params.purge /\ "admin" \in HaveUsers
            /\ "admin" \notin WantUsers)
          => (~RemovesAdmin(commands) /\ pc # "failed")
    /\ (pc \in {"done", "failed"} /\ RemovesAdmin(commands))
          => (pc = "failed" /\ loads = <<>>
                /\ msg = "cannot delete the admin account")

C1_Witness ==
    /\ pc = "done" /\ params.purge /\ loads # <<>>
    /\ "admin" \in HaveUsers /\ "admin" \notin WantUsers
    /\ Removal("bob") \in Range(commands)

\* C2 as stated: whatever the want list and the policy, the pass after a
\* committed pass renders no command and reports changed = false.
C2_IdempotenceAsStated ==
    (run >= 2 /\ AfterPurge) => (commands = <<>> /\ ~changed)

\* some want record with state present carries a password
WantsPassword ==
    \E i \in 1..Len(want) :
        want[i].state = Some("present") /\ Truthy("password", want[i].password)

DistinctWant ==
    \A i, j \in 1..Len(want) : want[i].username = want[j].username => i = j

\* C2 amended: when no username occurs twice in want, and the policy is
\* on_create or no want record with state present carries a password, the
\* pass after a committed pass renders no command and reports changed = false.
C2_Idempotence ==
    (run >= 2 /\ AfterPurge /\ DistinctWant
        /\ (params.update_password = "on_create" \/ ~WantsPassword))
      => (commands = <<>> /\ ~changed)

C2_Witness ==
    /\ run = 2 /\ pc = "done" /\ DistinctWant
    /\ params.update_password = "on_create" /\ WantsPassword
    /\ Len(prev[1]) >= 4
    /\ \E c \in Range(prev[1]) : Len(c) >= 3 /\ c[3] = "sshkey"
    /\ commands = <<>>

\* the privilege given for element i of the collection: the element's own
\* when it has one, the process-wide default otherwise
GivenPrivilege(i) ==
    IF Collection(params)[i].privilege # None
    THEN Collection(params)[i].privilege ELSE params.privilege

\* C3: a given privilege outside 1..15 (0 and negatives included) ends
\* map_params_to_obj in the fatal error; otherwise it succeeds, the want
\* record carries the given value and the rendered privilege command
\* spells it.
C3_PrivilegeBounds ==
    (pc # "start" /\ ~UsernameRequired(params)) =>
      /\ ParamsFailed <=>
            \E i \in 1..Len(Collection(params)) :
                /\ GivenPrivilege(i) # None
                /\ GivenPrivilege(i)[1] \notin PrivilegeMin..PrivilegeMax
      /\ ~ParamsFailed =>
            \A i \in 1..Len(want) :
                /\ want[i].privilege = GivenPrivilege(i)
                /\ AfterRender =>
                     \A c \in Range(CommandsFor(commands, want[i].username[1])) :
                        (Len(c) = 4 /\ c[3] = "privilege" /\ DistinctWant)
                            => ParseInt(c[4]) = GivenPrivilege(i)[1]

\* C4: for a want record with state present and a non-empty password there
\* is a secret command for its username exactly when the policy is always
\* or have holds no record of that username.
C4_PasswordPolicy ==
    AfterRender =>
      \A i \in 1..Len(want) :
        (want[i].state = Some("present") /\ Truthy("password", want[i].password))
          => ((\E c \in Range(commands) :
                  /\ Len(c) = 4 /\ c[1] = "username"
                  /\ c[2] = want[i].username[1]
                  /\ c[3] = "secret" /\ c[4] = want[i].password[1])
              <=> (params.update_password = "always"
                     \/ want[i].username[1] \notin HaveUsers))

C4_Witness ==
    /\ pc = "done" /\ params.update_password = "on_create"
    /\ \E i \in 1..Len(want) :
          /\ want[i].state = Some("present")
          /\ Truthy("password", want[i].password)
          /\ want[i].username[1] \in HaveUsers
          /\ \E c \in Range(commands) :
                Len(c) = 4 /\ c[2] = want[i].username[1] /\ c[3] = "role"

\* C5: with purge, every username in have, not in want and not admin has
\* exactly one removal command, after all commands of the diff/render
\* step, and no username of want gets a purge removal; without purge no
\* username outside want gets a removal command.
C5_Purge ==
    AfterPurge =>
      /\ SubSeq(commands, 1, Len(Rendered)) = Rendered
      /\ params.purge =>
            /\ \A u \in (HaveUsers \ WantUsers) \ {"admin"} :
                  /\ Count(commands, Removal(u)) = 1
                  /\ \E i \in (Len(Rendered) + 1)..Len(commands) :
                        commands[i] = Removal(u)
            /\ \A i \in (Len(Rendered) + 1)..Len(commands) :
                  Target(commands[i]) \notin WantUsers
      /\ ~params.purge =>
            \A u \in Range(Names) \ WantUsers : Removal(u) \notin Range(commands)

C5_Witness ==
    /\ pc = "done" /\ params.purge
    /\ Len(Rendered) >= 1
    /\ {"bob", "carol"} \subseteq HaveUsers \ WantUsers
    /\ Len(commands) = Len(Rendered) + 2

\* the have record of username u
HaveOf(u) == Lookup(have, Some(u))[1]

\* C6: a want record with state absent whose username is in have gets
\* exactly one removal command and no other command, whatever its other
\* fields hold, and the run reports changed = true.
C6_AbsentState ==
    AfterRender =>
      \A i \in 1..Len(want) :
        (want[i].state = Some("absent") /\ want[i].username[1] \in HaveUsers
            /\ want[i].username[1] # "admin" /\ DistinctWant)
          => /\ CommandsFor(commands, want[i].username[1])
                    = <<Removal(want[i].username[1])>>
             /\ pc = "done" => changed

\* C7: load_config is called at most once in a run, after get_config and
\* with the complete non-empty command list (diff/render commands, then
\* the purge removals); a run that ends in a fatal error never calls it;
\* changed is true exactly when it was called.
C7_AllOrNothing ==
    /\ Len(loads) <= 1
    /\ loads # <<>> =>
          /\ fetches = 1
          /\ pc = "done"
          /\ loads[1].commands # <<>>
          /\ loads[1].commands = commands
          /\ SubSeq(commands, 1, Len(Rendered)) = Rendered
          /\ {commands[i] : i \in (Len(Rendered) + 1)..Len(commands)}
                = (IF params.purge
                   THEN {Removal(u) : u \in (HaveUsers \ WantUsers) \ {"admin"}}
                   ELSE {})
    /\ pc = "failed" => loads = <<>>
    /\ changed <=> loads # <<>>
    /\ (pc = "done" /\ commands # <<>>) => loads # <<>>

C7_Witness ==
    /\ pc = "done" /\ Len(loads) = 1 /\ changed /\ params.purge
    /\ Len(Rendered) >= 1 /\ Len(commands) > Len(Rendered)

\* C8: a want record with state present and nopassword false, whose have
\* record has nopassword true, gets a command that disables passwordless
\* login, distinct from 'username <name> nopassword'.
C8_DisableNopassword ==
    AfterRender =>
      \A i \in 1..Len(want) :
        (want[i].state = Some("present") /\ want[i].nopassword = Some(FALSE)
            /\ want[i].username[1] \in HaveUsers
            /\ HaveOf(want[i].username[1]).nopassword = Some(TRUE))
          => \E c \in Range(CommandsFor(commands, want[i].username[1])) :
                /\ "nopassword" \in Range(c)
                /\ c # <<"username", want[i].username[1], "nopassword">>

\* one command per field of w that is non-empty and differs from h, in the
\* order role, privilege, password (policy always only), sshkey, nopassword
OnePerChange(w, h) ==
    LET u == w.username[1]
        differs(x) == Truthy(x, w[x]) /\ w[x] # h[x]
    IN (IF differs("role") THEN <<<<"username", u, "role", w.role[1]>>>> ELSE <<>>)
       \o (IF differs("privilege")
           THEN <<<<"username", u, "privilege", Str(w.privilege[1])>>>> ELSE <<>>)
       \o (IF differs("password") /\ params.update_password = "always"
           THEN <<<<"username", u, "secret", w.password[1]>>>> ELSE <<>>)
       \o (IF differs("sshkey")
           THEN <<<<"username", u, "sshkey">> \o w.sshkey[1]>> ELSE <<>>)
       \o (IF differs("nopassword") THEN <<<<"username", u, "nopassword">>>> ELSE <<>>)

\* C9: for a want record with state present whose username is in have, the
\* commands that target the username are exactly one per differing
\* non-empty field, in the fixed order, none of them repeated.
C9_OneCommandPerChange ==
    AfterRender =>
      \A i \in 1..Len(want) :
        (want[i].state = Some("present") /\ want[i].username[1] \in HaveUsers
            /\ DistinctWant)
          => CommandsFor(commands, want[i].username[1])
                = OnePerChange(want[i], HaveOf(want[i].username[1]))

\* C10: a want record with state present whose username is not in have is
\* paired with the empty record and gets at least one command, so the run
\* reports changed = true.
C10_NewAccount ==
    AfterRender =>
      \A i \in 1..Len(want) :
        (want[i].state = Some("present") /\ want[i].username[1] \notin HaveUsers)
          => /\ [want |-> want[i], have |-> EmptyDict] \in Range(updates)
             /\ CommandsFor(commands, want[i].username[1]) # <<>>
             /\ pc = "done" => changed

====
